---- MODULE Spec2Model ----
(***************************************************************************)
(* The execute endpoint of the JavaScript code execution service           *)
(* (python-fastapi/src/main.py): one request is traced in a first V8       *)
(* context, its recorded HTTP requests are fetched concurrently, and the   *)
(* code is evaluated again in a second context that answers httpRequest()  *)
(* from a map keyed by the JSON text of {options, url}.                    *)
(*                                                                         *)
(* Guest code is a short program over the globals the service installs:    *)
(* a list of statements followed by the expression whose value the         *)
(* evaluation returns.  JSON texts are modelled as strings.                *)
(***************************************************************************)
EXTENDS Naturals, Sequences, FiniteSets, TLC

VARIABLES
    request,        \* ExecuteRequest: [code, inputs]
    pc,             \* position of execute_code in the orchestration
    ctx,            \* the context of the first pass (alive or deleted)
    ctx2,           \* the context of the second pass (alive or deleted)
    http_requests,  \* the list read back from __httpRequests
    tasks,          \* the perform_fetch coroutines handed to asyncio.gather
    http_results,   \* key -> envelope
    result,         \* the local `result` of execute_code
    response,       \* what the endpoint answers
    evals,          \* history: every ctx.eval(request.code) made, in order
    transport,      \* history: every http_client.request made, in order
    contexts,       \* history: number of MiniRacer() contexts created
    current,        \* the request whose coroutine the event loop is running
    others,         \* the suspended requests: id -> the locals of its coroutine
    overlapped      \* history: a coroutine ran while another was suspended

vars == <<request, pc, ctx, ctx2, http_requests, tasks, http_results,
          result, response, evals, transport, contexts,
          current, others, overlapped>>

\* the locals of one execute_code coroutine
locals == <<request, pc, ctx, ctx2, http_requests, tasks, http_results,
            result, response, evals, contexts>>

\* what the event loop keeps
sched == <<current, others, overlapped>>

(***************************************************************************)
(* Bounds                                                                  *)
(***************************************************************************)
\* longest statement list of a guest program
MaxStmts == 2
\* most fields in one options object
MaxOpts == 2

Targets == {"u1", "u2"}
OptFields == {"body", "method"}
OptValues(f) == IF f = "method" THEN {"GET", "POST"} ELSE {"x"}

SeqsUpTo(S, n) == UNION {[1..k -> S] : k \in 0..n}

\* an options object: its fields in insertion order
Options ==
    {o \in SeqsUpTo(UNION {{<<f, v>> : v \in OptValues(f)} : f \in OptFields},
                    MaxOpts) :
        \A i, j \in 1..Len(o) : i # j => o[i][1] # o[j][1]}

\* argument lists of httpRequest: (), (url), (url, options)
CallArgs ==
    {<<>>} \cup {<<t>> : t \in Targets}
           \cup {<<"u1", o>> : o \in Options \ {<<>>}}

Stmt ==
    {[op |-> "call", args |-> a] : a \in CallArgs}
    \cup {[op |-> "callIfResponse", args |-> <<"u2">>],
          [op |-> "increment", args |-> <<>>],
          [op |-> "readData", args |-> <<>>],
          [op |-> "throw", args |-> <<>>]}

ReturnKinds == {"number", "object", "array", "function", "response"}

\* the empty string
EmptyCode == [stmts |-> <<>>, ret |-> "nothing"]

Codes ==
    {EmptyCode} \cup [stmts : SeqsUpTo(Stmt, MaxStmts), ret : ReturnKinds]

(***************************************************************************)
(* JSON texts                                                              *)
(***************************************************************************)
Quote(s) == "\"" \o s \o "\""

RECURSIVE Join(_, _)
Join(texts, sep) ==
    IF texts = <<>> THEN ""
    ELSE IF Len(texts) = 1 THEN texts[1]
    ELSE texts[1] \o sep \o Join(Tail(texts), sep)

\* an object whose members are <<name, text of the value>>, in the order given
JsonObject(members, itemSep, keySep) ==
    "{" \o Join([i \in 1..Len(members) |->
                    Quote(members[i][1]) \o keySep \o members[i][2]], itemSep)
        \o "}"

\* the member names in use, in the order sort_keys puts them
KeyOrder == <<"body", "headers", "method", "options", "url">>
Rank(k) == CHOOSE i \in 1..Len(KeyOrder) : KeyOrder[i] = k

RECURSIVE SortMembers(_)
SortMembers(members) ==
    IF members = <<>> THEN <<>>
    ELSE LET least == CHOOSE i \in 1..Len(members) :
                          \A j \in 1..Len(members) :
                              Rank(members[i][1]) <= Rank(members[j][1])
             rest == [j \in 1..(Len(members) - 1) |->
                         IF j < least THEN members[j] ELSE members[j + 1]]
         IN <<members[least]>> \o SortMembers(rest)

OptionMembers(o) == [i \in 1..Len(o) |-> <<o[i][1], Quote(o[i][2])>>]

(***************************************************************************)
(* Keys of the results map                                                 *)
(***************************************************************************)
\* json.dumps({'url': ..., 'options': ...}, sort_keys=True, separators=(',', ':'))
PyKey(req) ==
    JsonObject(
        SortMembers(<<
            <<"url", Quote(req.url)>>,
            <<"options",
              JsonObject(SortMembers(OptionMembers(req.options)), ",", ":")>>
        >>), ",", ":")

\* the arguments of httpRequest(url, options) as the function body sees them:
\* a missing argument is undefined (<<>>), and `options || {}` is {}
JsUrl(args) == IF Len(args) >= 1 THEN <<args[1]>> ELSE <<>>
JsOptions(args) == IF Len(args) >= 2 THEN args[2] ELSE <<>>

\* JSON.stringify({ 'options': options || {}, 'url': url }): members in the
\* order they were inserted, a member whose value is undefined left out
JsKey(args) ==
    JsonObject(
        <<<<"options", JsonObject(OptionMembers(JsOptions(args)), ",", ":")>>>>
        \o (IF JsUrl(args) = <<>> THEN <<>>
            ELSE <<<<"url", Quote(JsUrl(args)[1])>>>>),
        ",", ":")

(***************************************************************************)
(* perform_fetch                                                           *)
(***************************************************************************)
OptGet(o, f, default) ==
    IF \E i \in 1..Len(o) : o[i][1] = f
    THEN (LET i == CHOOSE i \in 1..Len(o) : o[i][1] = f IN o[i][2])
    ELSE default

\* the call perform_fetch makes on the shared http client
ClientRequest(req) ==
    [method |-> OptGet(req.options, "method", "GET"),
     url |-> req.url,
     body |-> OptGet(req.options, "body", "None")]

\* what the transport can do with one call: answer, or fail
TransportOutcomes ==
    {[raised |-> FALSE, status_code |-> 200, reason_phrase |-> "OK"],
     [raised |-> FALSE, status_code |-> 404, reason_phrase |-> "Not Found"],
     [raised |-> TRUE, status_code |-> 0, reason_phrase |-> "ConnectError"]}

\* every answered call counts as a success
IsSuccess_Answered(status_code) == status_code > 0

\* response.is_success
IsSuccess(status_code) == status_code \in 200..299

\* the dictionary perform_fetch returns for one request and one outcome
Envelope(sent, outcome) ==
    IF outcome.raised
    THEN [ok |-> FALSE, status |-> 0, statusText |-> "Error", headers |-> {},
          error |-> outcome.reason_phrase]
    ELSE [ok |-> IsSuccess(outcome.status_code),
          status |-> outcome.status_code,
          statusText |-> outcome.reason_phrase,
          headers |-> {<<"content-type", "application/json">>},
          data |-> sent]

(***************************************************************************)
(* The V8 contexts and the evaluation of guest code                        *)
(***************************************************************************)
Deleted == [alive |-> FALSE]

\* a teardown at the end of the try block instead of in finally
Teardown_OnSuccess(cx, raised) == IF raised THEN cx ELSE Deleted

\* finally: del ctx, whether the pass raised or not
Teardown(cx, raised) == Deleted

\* one context for the whole process, whose INPUTS keep what the evaluations
\* of all requests did to them
create_context_with_http_support_Singleton(inputs, results) ==
    LET seen == {inputs.n}
                \cup {evals[k].inputs.n : k \in 1..Len(evals)}
                \cup UNION {{others[j].evals[k].inputs.n :
                                k \in 1..Len(others[j].evals)} : j \in DOMAIN others}
        kept == [n |-> CHOOSE m \in seen : \A x \in seen : x <= m]
    IN IF results = <<>>
       THEN [alive |-> TRUE, INPUTS |-> kept, httpRequests |-> <<>>]
       ELSE [alive |-> TRUE, INPUTS |-> kept, httpResults |-> results[1]]

\* create_context_with_http_support(inputs, http_results): http_results is
\* <<>> for None and <<map>> otherwise
create_context_with_http_support(inputs, results) ==
    IF results = <<>>
    THEN [alive |-> TRUE, INPUTS |-> inputs, httpRequests |-> <<>>]
    ELSE [alive |-> TRUE, INPUTS |-> inputs, httpResults |-> results[1]]

Undefined == [kind |-> "undefined"]

\* a lookup that throws when the key has no entry
httpRequest_Strict(cx, args) ==
    IF "httpRequests" \in DOMAIN cx
    THEN [ctx |-> [cx EXCEPT !.httpRequests =
                       Append(@, [url |-> JsUrl(args),
                                  options |-> JsOptions(args)])],
          ret |-> Undefined, raised |-> FALSE]
    ELSE [ctx |-> cx,
          ret |-> IF JsKey(args) \in DOMAIN cx.httpResults
                  THEN [kind |-> "object",
                        fields |-> cx.httpResults[JsKey(args)]]
                  ELSE Undefined,
          raised |-> JsKey(args) \notin DOMAIN cx.httpResults]

\* a trace branch that records every call twice
httpRequest_LoggedTwice(cx, args) ==
    IF "httpRequests" \in DOMAIN cx
    THEN [ctx |-> [cx EXCEPT !.httpRequests =
                       Append(Append(@, [url |-> JsUrl(args),
                                         options |-> JsOptions(args)]),
                              [url |-> JsUrl(args),
                               options |-> JsOptions(args)])],
          ret |-> Undefined, raised |-> FALSE]
    ELSE [ctx |-> cx,
          ret |-> IF JsKey(args) \in DOMAIN cx.httpResults
                  THEN [kind |-> "object",
                        fields |-> cx.httpResults[JsKey(args)]]
                  ELSE Undefined,
          raised |-> FALSE]

\* httpRequest(url, options) in a context: the context after the call, the
\* value the call returns and whether the call throws.  Array.push, the
\* property lookup and JSON.stringify of strings do not throw.
httpRequest(cx, args) ==
    IF "httpRequests" \in DOMAIN cx
    THEN [ctx |-> [cx EXCEPT !.httpRequests =
                       Append(@, [url |-> JsUrl(args),
                                  options |-> JsOptions(args)])],
          ret |-> Undefined, raised |-> FALSE]
    ELSE [ctx |-> cx,
          ret |-> IF JsKey(args) \in DOMAIN cx.httpResults
                  THEN [kind |-> "object",
                        fields |-> cx.httpResults[JsKey(args)]]
                  ELSE Undefined,
          raised |-> FALSE]

\* one statement; m is [ctx, resp, calls, raised, msg, pos], pos the number
\* of the statement.  The value of httpRequest is bound once, as h.
Step(m, stmt) ==
    CASE stmt.op = "call" ->
            CHOOSE next \in
                {[m EXCEPT !.ctx = h.ctx, !.resp = h.ret,
                           !.calls = Append(@, [args |-> stmt.args,
                                                ret |-> h.ret, at |-> m.pos]),
                           !.raised = h.raised,
                           !.msg = IF h.raised
                                   THEN "Error: thrown by httpRequest" ELSE @]
                    : h \in {httpRequest(m.ctx, stmt.args)}} : TRUE
      [] stmt.op = "callIfResponse" ->
            IF m.resp = Undefined THEN m
            ELSE CHOOSE next \in
                {[m EXCEPT !.ctx = h.ctx,
                           !.calls = Append(@, [args |-> stmt.args,
                                                ret |-> h.ret, at |-> m.pos]),
                           !.raised = h.raised,
                           !.msg = IF h.raised
                                   THEN "Error: thrown by httpRequest" ELSE @]
                    : h \in {httpRequest(m.ctx, stmt.args)}} : TRUE
      [] stmt.op = "increment" ->
            [m EXCEPT !.ctx.INPUTS.n = @ + 1]
      [] stmt.op = "readData" ->
            IF m.resp = Undefined
            THEN [m EXCEPT !.raised = TRUE,
                           !.msg = "TypeError: Cannot read properties of undefined"]
            ELSE m
      [] stmt.op = "throw" ->
            [m EXCEPT !.raised = TRUE, !.msg = "Error: thrown by the code"]
      [] stmt.op = "loop" ->
            [m EXCEPT !.looping = TRUE]
      [] stmt.op = "loopIfResponse" ->
            [m EXCEPT !.looping = (m.resp # Undefined)]

\* the statements in order, up to the first that throws or that never ends
\* (while (true) {}); the state after a
\* statement is bound once, as next
RECURSIVE Run(_, _)
Run(m, stmts) ==
    IF stmts = <<>> \/ m.raised \/ m.looping THEN m
    ELSE CHOOSE end \in
            {Run(next, Tail(stmts))
                : next \in {Step([m EXCEPT !.pos = @ + 1], Head(stmts))}} : TRUE

\* the value of the last expression of the code
Completion(m, ret) ==
    CASE ret = "number" -> [kind |-> "number", number |-> m.ctx.INPUTS.n]
      [] ret = "object" -> [kind |-> "object", fields |-> [n |-> m.ctx.INPUTS.n]]
      [] ret = "array" -> [kind |-> "array", items |-> <<m.ctx.INPUTS.n>>]
      [] ret = "function" -> [kind |-> "function"]
      [] ret = "response" -> m.resp
      [] ret = "nothing" -> Undefined

\* the evaluation of the code in context cx, inside V8; `returned` says
\* whether ctx.eval comes back at all (it is called without a timeout)
Evaluate(cx, code) ==
    LET m == Run([ctx |-> cx, resp |-> Undefined, calls |-> <<>>,
                  raised |-> FALSE, msg |-> "", pos |-> 0,
                  looping |-> FALSE], code.stmts)
    IN [ctx |-> m.ctx, raised |-> m.raised, msg |-> m.msg, calls |-> m.calls,
        returned |-> ~m.looping,
        raisedAt |-> IF m.raised THEN m.pos ELSE 0,
        value |-> IF m.raised THEN Undefined ELSE Completion(m, code.ret)]

(***************************************************************************)
(* The Python side of ctx.eval                                             *)
(***************************************************************************)
\* the Python values ctx.eval can hand back for a JavaScript value.  Numbers
\* and undefined are converted; an object comes back as a JSObject handle.
\* The class of the handle of a function is left to the py_mini_racer build.
ToPython(v) ==
    CASE v.kind = "number" -> {[kind |-> "int", number |-> v.number]}
      [] v.kind = "undefined" -> {[kind |-> "None"]}
      [] v.kind = "array" -> {[kind |-> "handle", class |-> "JSObject", js |-> v]}
      [] v.kind = "object" -> {[kind |-> "handle", class |-> "JSObject", js |-> v]}
      [] v.kind = "function" ->
            {[kind |-> "handle", class |-> c, js |-> v] :
                c \in {"JSObject", "JSFunction"}}

\* hasattr(result, '__class__') and 'JSObject' in str(type(result))
IsJSObject(r) == r.kind = "handle" /\ r.class = "JSObject"

\* JSON.stringify(v) handed back by ctx.eval: <<>> is None (undefined),
\* otherwise the text, kept as the structure it denotes
JsonStringify(v) ==
    IF v.kind \in {"undefined", "function"} THEN <<>> ELSE <<v>>

\* json.loads(text)
JsonLoads(v) ==
    CASE v.kind = "number" -> [kind |-> "int", number |-> v.number]
      [] v.kind = "array" -> [kind |-> "list", items |-> v.items]
      [] v.kind = "object" -> [kind |-> "dict", fields |-> v.fields]

\* a log kept by the process instead of by the context: it still holds the
\* entries of a request that is suspended
LoadRequests_Shared(log) ==
    LET own == [i \in 1..Len(log) |->
                   IF log[i].url = <<>>
                   THEN [options |-> log[i].options]
                   ELSE [url |-> log[i].url[1], options |-> log[i].options]]
    IN IF DOMAIN others = {} THEN own
       ELSE own \o others[CHOOSE j \in DOMAIN others :
                              \A k \in DOMAIN others :
                                  Len(others[k].http_requests)
                                      <= Len(others[j].http_requests)].http_requests

\* json.loads(ctx.eval("JSON.stringify(__httpRequests)")): a member whose
\* value is undefined is not in the text
LoadRequests(log) ==
    [i \in 1..Len(log) |->
        IF log[i].url = <<>>
        THEN [options |-> log[i].options]
        ELSE [url |-> log[i].url[1], options |-> log[i].options]]

EvalRecord(pass, e) ==
    [pass |-> pass, raised |-> e.raised, msg |-> e.msg, value |-> e.value,
     calls |-> e.calls, raisedAt |-> e.raisedAt, inputs |-> e.ctx.INPUTS]

\* result = ctx.eval(request.code) followed by the JSObject handling: the
\* code is evaluated again inside JSON.stringify(eval(`...`)) in the same
\* context.  r is the Python value the first evaluation came back as.
\* [raised, msg, result, ctx, evals]
EvalAndConvert(pass, cx, code, e1, r) ==
    IF ~IsJSObject(r)
    THEN [raised |-> FALSE, msg |-> "", result |-> r, ctx |-> e1.ctx,
          evals |-> <<EvalRecord(pass, e1)>>]
    ELSE LET e2 == Evaluate(e1.ctx, code)
             result_json == JsonStringify(e2.value)
         IN [raised |-> e2.raised, msg |-> e2.msg,
             result |-> IF e2.raised \/ result_json = <<>> THEN r
                        ELSE JsonLoads(result_json[1]),
             ctx |-> e2.ctx,
             evals |-> <<EvalRecord(pass, e1), EvalRecord(pass, e2)>>]

(***************************************************************************)
(* execute_code                                                            *)
(***************************************************************************)
NoResult == [kind |-> "unbound"]
NoResponse == [status_code |-> 0]
NoResults == [k \in {} |-> Undefined]

Inputs == {[n |-> 0]}

\* no other request is being served
NoOthers == [i \in {} |-> NoResult]

Init ==
    /\ request \in [code : Codes, inputs : Inputs]
    /\ pc = "Received"
    /\ ctx = Deleted
    /\ ctx2 = Deleted
    /\ http_requests = <<>>
    /\ tasks = <<>>
    /\ http_results = NoResults
    /\ result = NoResult
    /\ response = NoResponse
    /\ evals = <<>>
    /\ transport = <<>>
    /\ contexts = 0
    /\ current = 1
    /\ others = NoOthers
    /\ overlapped = FALSE

\* the check on request.code left out
InvalidCode_Never(code) == FALSE

\* if not request.code or not isinstance(request.code, str)
InvalidCode(code) == code = EmptyCode

\* raise HTTPException(status_code=400, detail="Invalid code parameter")
InvalidRequest ==
    [status_code |-> 400, detail |-> [text |-> "Invalid code parameter"]]

\* except Exception as e: raise HTTPException(status_code=500, detail={...})
ExecutionError(msg) ==
    [status_code |-> 500,
     detail |-> [error |-> "Execution failed", message |-> msg]]

\* return ExecuteResponse(result=result)
ExecuteResponse(r) == [status_code |-> 200, result |-> r]

Validate ==
    /\ pc = "Received"
    /\ IF InvalidCode(request.code)
       THEN /\ pc' = "Failed"
            /\ response' = InvalidRequest
            /\ UNCHANGED <<ctx, contexts>>
       ELSE /\ pc' = "TracePass"
            /\ ctx' = create_context_with_http_support(request.inputs, <<>>)
            /\ contexts' = contexts + 1
            /\ UNCHANGED response
    /\ UNCHANGED <<request, ctx2, http_requests, tasks, http_results, result,
                   evals, transport>>
    /\ UNCHANGED sched

\* a fast path that is never taken
NoRequests_Never(reqs) == FALSE

\* if not http_requests (after an evaluation that returned): return at once
NoRequests(reqs) == reqs = <<>>

\* the exception of the first pass swallowed whatever was recorded
RealError_Never(reqs) == FALSE

\* if not http_requests: raise (after an evaluation that raised)
RealError(reqs) == reqs = <<>>

\* the except branch of the first pass: the exception is kept only when no
\* request was recorded
TraceRaised(e, msg) ==
    LET reqs == LoadRequests(e.ctx.httpRequests)
    IN /\ http_requests' = reqs
       /\ IF RealError(reqs)
          THEN /\ pc' = "Failed"
               /\ response' = ExecutionError(msg)
          ELSE /\ pc' = "AwaitingResolution"
               /\ UNCHANGED response

\* the first pass: the try/except/finally around ctx.eval(request.code)
TracePass ==
    /\ pc = "TracePass"
    /\ Evaluate(ctx, request.code).returned
    /\ LET e1 == Evaluate(ctx, request.code)
           reqs == LoadRequests(e1.ctx.httpRequests)
       IN IF e1.raised
          THEN /\ TraceRaised(e1, e1.msg)
               /\ evals' = Append(evals, EvalRecord("trace", e1))
               /\ UNCHANGED result
          ELSE \E r \in ToPython(e1.value) :
                 IF NoRequests(reqs)
                 THEN LET c == EvalAndConvert("trace", ctx, request.code, e1, r)
                      IN /\ evals' = evals \o c.evals
                         /\ IF c.raised
                            THEN /\ TraceRaised(c, c.msg)
                                 /\ result' = r
                            ELSE /\ pc' = "Immediate"
                                 /\ result' = c.result
                                 /\ http_requests' = reqs
                                 /\ UNCHANGED response
                 ELSE /\ pc' = "AwaitingResolution"
                      /\ result' = r
                      /\ http_requests' = reqs
                      /\ evals' = Append(evals, EvalRecord("trace", e1))
                      /\ UNCHANGED response
    /\ ctx' = Teardown(ctx, Evaluate(ctx, request.code).raised)
    /\ UNCHANGED <<request, ctx2, tasks, http_results, transport, contexts>>
    /\ UNCHANGED sched

\* the return of the fast path
ReturnImmediate ==
    /\ pc = "Immediate"
    /\ pc' = "Completed"
    /\ response' = ExecuteResponse(result)
    /\ UNCHANGED <<request, ctx, ctx2, http_requests, tasks, http_results,
                   result, evals, transport, contexts>>
    /\ UNCHANGED sched

\* req['url'] raises KeyError for a request that has no url
HasUrl(req) == "url" \in DOMAIN req

\* tasks = [perform_fetch(req['url'], req.get('options')) for req in http_requests]
\* and the start of asyncio.gather(*tasks): every coroutine runs up to its
\* await on the http client
Dispatch ==
    /\ pc = "AwaitingResolution"
    /\ IF \A i \in 1..Len(http_requests) : HasUrl(http_requests[i])
       THEN /\ pc' = "ResolvingIO"
            /\ tasks' = [i \in 1..Len(http_requests) |->
                            [req |-> http_requests[i], done |-> FALSE]]
            /\ transport' = transport \o
                   [i \in 1..Len(http_requests) |-> ClientRequest(http_requests[i])]
            /\ UNCHANGED response
       ELSE /\ pc' = "Failed"
            /\ response' = ExecutionError("'url'")
            /\ UNCHANGED <<tasks, transport>>
    /\ UNCHANGED <<request, ctx, ctx2, http_requests, http_results, result,
                   evals, contexts>>
    /\ UNCHANGED sched

\* one perform_fetch resumes, in any order: the client answered or raised
TransportReply(i) ==
    /\ pc = "ResolvingIO"
    /\ i \in 1..Len(tasks)
    /\ ~tasks[i].done
    /\ \E outcome \in TransportOutcomes :
          tasks' = [tasks EXCEPT ![i] =
                       [req |-> tasks[i].req, done |-> TRUE,
                        outcome |-> outcome,
                        envelope |-> Envelope(ClientRequest(tasks[i].req), outcome)]]
    /\ UNCHANGED <<request, pc, ctx, ctx2, http_requests, http_results, result,
                   response, evals, transport, contexts>>
    /\ UNCHANGED sched

\* for req, result in zip(http_requests, results): http_results[key] = result
RECURSIVE BuildResults(_, _, _)
BuildResults(reqs, results, acc) ==
    IF reqs = <<>> THEN acc
    ELSE LET key == PyKey(Head(reqs))
         IN BuildResults(Tail(reqs), Tail(results),
                [k \in DOMAIN acc \cup {key} |->
                    IF k = key THEN Head(results) ELSE acc[k]])

\* a join that resumes with the first task that is done
GatherReady_FirstCompleted(ts) == ts = <<>> \/ \E i \in 1..Len(ts) : ts[i].done

\* await asyncio.gather(*tasks) resumes when every task is done
GatherReady(ts) == \A i \in 1..Len(ts) : ts[i].done

\* every position of the results holds what the first task returned
TaskResult_First(t) == tasks[1].envelope

\* the value gather hands back for one task
TaskResult(t) ==
    IF t.done THEN t.envelope
    ELSE [ok |-> FALSE, status |-> 0, statusText |-> "Pending", headers |-> {}]

\* asyncio.gather returns once every task is done; the map is built and the
\* second context is created with it
Gather ==
    /\ pc = "ResolvingIO"
    /\ GatherReady(tasks)
    /\ LET results == [i \in 1..Len(tasks) |-> TaskResult(tasks[i])]
           built == BuildResults(http_requests, results, NoResults)
       IN /\ http_results' = built
          /\ result' = IF results = <<>> THEN result
                       ELSE [kind |-> "dict", fields |-> results[Len(results)]]
          /\ ctx2' = create_context_with_http_support(request.inputs, <<built>>)
    /\ contexts' = contexts + 1
    /\ pc' = "ReplayPass"
    /\ UNCHANGED <<request, ctx, http_requests, tasks, response, evals, transport>>
    /\ UNCHANGED sched

\* the second pass: try/finally around ctx2.eval(request.code)
ReplayPass ==
    /\ pc = "ReplayPass"
    /\ Evaluate(ctx2, request.code).returned
    /\ LET e1 == Evaluate(ctx2, request.code)
       IN IF e1.raised
          THEN /\ pc' = "Failed"
               /\ response' = ExecutionError(e1.msg)
               /\ evals' = Append(evals, EvalRecord("replay", e1))
               /\ UNCHANGED result
          ELSE \E r \in ToPython(e1.value) :
                 LET c == EvalAndConvert("replay", ctx2, request.code, e1, r)
                 IN /\ evals' = evals \o c.evals
                    /\ IF c.raised
                       THEN /\ pc' = "Failed"
                            /\ response' = ExecutionError(c.msg)
                            /\ result' = r
                       ELSE /\ pc' = "Completed"
                            /\ response' = ExecuteResponse(c.result)
                            /\ result' = c.result
    /\ ctx2' = Teardown(ctx2, Evaluate(ctx2, request.code).raised)
    /\ UNCHANGED <<request, ctx, http_requests, tasks, http_results, transport,
                   contexts>>
    /\ UNCHANGED sched

Next ==
    \/ Validate
    \/ TracePass
    \/ ReturnImmediate
    \/ Dispatch
    \/ \E i \in 1..Len(tasks) : TransportReply(i)
    \/ Gather
    \/ ReplayPass

Spec == Init /\ [][Next]_vars

(***************************************************************************)
(* Several requests on one event loop.  A coroutine runs until it awaits:  *)
(* execute_code awaits only asyncio.gather, so the loop changes coroutine  *)
(* before a request starts, while it waits for its tasks, and when it has  *)
(* ended.  The locals of the running coroutine are the variables; those of *)
(* the suspended ones are kept in `others`.  The http client is shared.    *)
(***************************************************************************)
\* the codes of the requests served together
PairCodes ==
    {[stmts |-> <<[op |-> "increment", args |-> <<>>]>>, ret |-> "number"],
     [stmts |-> <<[op |-> "call", args |-> <<"u1">>]>>, ret |-> "number"],
     [stmts |-> <<[op |-> "call", args |-> <<"u1">>]>>, ret |-> "response"],
     [stmts |-> <<[op |-> "call", args |-> <<"u1">>],
                  [op |-> "increment", args |-> <<>>]>>, ret |-> "object"],
     [stmts |-> <<[op |-> "call", args |-> <<"u1">>],
                  [op |-> "callIfResponse", args |-> <<"u2">>]>>,
      ret |-> "number"],
     [stmts |-> <<[op |-> "call", args |-> <<"u2">>],
                  [op |-> "readData", args |-> <<>>]>>, ret |-> "response"],
     [stmts |-> <<[op |-> "increment", args |-> <<>>]>>, ret |-> "function"]}

\* the identifiers of the requests
Requests == {1, 2, 3}

\* the locals of the running coroutine, as a record
Running ==
    [request |-> request, pc |-> pc, ctx |-> ctx, ctx2 |-> ctx2,
     http_requests |-> http_requests, tasks |-> tasks,
     http_results |-> http_results, result |-> result, response |-> response,
     evals |-> evals, contexts |-> contexts]

\* the locals of a coroutine that has not started
Fresh(req) ==
    [request |-> req, pc |-> "Received", ctx |-> Deleted, ctx2 |-> Deleted,
     http_requests |-> <<>>, tasks |-> <<>>, http_results |-> NoResults,
     result |-> NoResult, response |-> NoResponse, evals |-> <<>>,
     contexts |-> 0]

\* request 1 is served alone; requests 2 and 3 arrive after it, request 2
\* with the body of request 1
InitConcurrent ==
    /\ request \in [code : PairCodes, inputs : Inputs]
    /\ pc = "Received"
    /\ ctx = Deleted
    /\ ctx2 = Deleted
    /\ http_requests = <<>>
    /\ tasks = <<>>
    /\ http_results = NoResults
    /\ result = NoResult
    /\ response = NoResponse
    /\ evals = <<>>
    /\ transport = <<>>
    /\ contexts = 0
    /\ current = 1
    /\ \E other \in [code : PairCodes, inputs : Inputs] :
          others = (2 :> Fresh(request)) @@ (3 :> Fresh(other))
    /\ overlapped = FALSE

\* the places where a coroutine can be suspended or has nothing left to run
Suspendable(state) == state \in {"Received", "ResolvingIO", "Completed", "Failed"}

\* the event loop runs coroutine j
Switch(j) ==
    /\ j \in DOMAIN others
    /\ Suspendable(pc)
    /\ current = 1 => pc \in {"Completed", "Failed"}
    /\ others[j].pc \notin {"Completed", "Failed"}
    /\ request' = others[j].request
    /\ pc' = others[j].pc
    /\ ctx' = others[j].ctx
    /\ ctx2' = others[j].ctx2
    /\ http_requests' = others[j].http_requests
    /\ tasks' = others[j].tasks
    /\ http_results' = others[j].http_results
    /\ result' = others[j].result
    /\ response' = others[j].response
    /\ evals' = others[j].evals
    /\ contexts' = others[j].contexts
    /\ current' = j
    /\ others' = [i \in (DOMAIN others \ {j}) \cup {current} |->
                     IF i = current THEN Running ELSE others[i]]
    /\ overlapped' = (overlapped \/ pc = "ResolvingIO"
                                 \/ others[j].pc = "ResolvingIO")
    /\ UNCHANGED transport

NextConcurrent ==
    \/ Next
    \/ \E j \in Requests : Switch(j)

SpecConcurrent == InitConcurrent /\ [][NextConcurrent]_vars

(***************************************************************************)
(* Guest code that does not end.  The host keeps taking every step it can  *)
(* take: the event loop is never idle while a coroutine can run and the    *)
(* transport answers or fails every call.                                  *)
(***************************************************************************)
\* while (true) {} at once, and only when the last call returned a response
LoopCodes ==
    {[stmts |-> <<[op |-> "loop", args |-> <<>>]>>, ret |-> "number"],
     [stmts |-> <<[op |-> "call", args |-> <<"u1">>],
                  [op |-> "loopIfResponse", args |-> <<>>]>>,
      ret |-> "response"],
     [stmts |-> <<[op |-> "call", args |-> <<"u1">>],
                  [op |-> "call", args |-> <<"u2">>],
                  [op |-> "loopIfResponse", args |-> <<>>]>>,
      ret |-> "number"]}

InitLive ==
    /\ request \in [code : PairCodes \cup LoopCodes, inputs : Inputs]
    /\ pc = "Received"
    /\ ctx = Deleted
    /\ ctx2 = Deleted
    /\ http_requests = <<>>
    /\ tasks = <<>>
    /\ http_results = NoResults
    /\ result = NoResult
    /\ response = NoResponse
    /\ evals = <<>>
    /\ transport = <<>>
    /\ contexts = 0
    /\ current = 1
    /\ others = NoOthers
    /\ overlapped = FALSE

SpecLive == InitLive /\ [][Next]_vars /\ WF_vars(Next)

(***************************************************************************)
(* Vocabulary of the properties                                            *)
(***************************************************************************)
Terminal == pc \in {"Completed", "Failed"}

PassEvals(pass) == SelectSeq(evals, LAMBDA e : e.pass = pass)

\* the request was answered with the 500 of the outer except, carrying msg
FailedWith(msg) ==
    /\ pc = "Failed"
    /\ response.status_code = 500
    /\ response.detail = [error |-> "Execution failed", message |-> msg]

\* the Python value r holds what the JavaScript value v holds
SameValue(r, v) ==
    CASE r.kind = "int" -> v.kind = "number" /\ v.number = r.number
      [] r.kind = "None" -> v.kind = "undefined"
      [] r.kind = "dict" -> v.kind = "object" /\ v.fields = r.fields
      [] r.kind = "list" -> v.kind = "array" /\ v.items = r.items
      [] r.kind = "handle" -> v = r.js
      [] OTHER -> FALSE

\* a plain structured value of the host: nothing that points into a context
HostRepresentable(r) == r.kind \in {"int", "None", "dict", "list"}

\* the options of two requests hold the same fields with the same values
SameOptions(o1, o2) ==
    {o1[i] : i \in 1..Len(o1)} = {o2[i] : i \in 1..Len(o2)}

\* the argument list that records req in the first pass
ArgsOf(req) == <<req.url, req.options>>

\* the call with these arguments was recorded as entry i of the log
TracedAs(args, i) ==
    /\ HasUrl(http_requests[i])
    /\ JsUrl(args) = <<http_requests[i].url>>
    /\ JsOptions(args) = http_requests[i].options

(***************************************************************************)
(* C1: in the resolution phase the number of transport calls equals the    *)
(* number of distinct canonical keys of the trace log; traced calls with   *)
(* the same target and identical options cause one transport call.         *)
(***************************************************************************)
C1_OneTransportCallPerKey ==
    tasks # <<>> =>
        Len(transport) =
            Cardinality({PyKey(http_requests[i]) : i \in 1..Len(http_requests)})

(***************************************************************************)
(* C2: every call of the replay pass whose (target, options) was recorded  *)
(* in the trace pass returns the envelope resolved for that call, never    *)
(* the missing value: the key of the lookup is the key of the map.         *)
(***************************************************************************)
C2_ReplayFindsTracedCalls ==
    \A k \in 1..Len(evals) :
        evals[k].pass = "replay" =>
            \A c \in 1..Len(evals[k].calls) :
                \A i \in 1..Len(http_requests) :
                    TracedAs(evals[k].calls[c].args, i) =>
                        /\ JsKey(evals[k].calls[c].args) = PyKey(http_requests[i])
                        /\ evals[k].calls[c].ret =
                               [kind |-> "object",
                                fields |-> http_results[PyKey(http_requests[i])]]

(***************************************************************************)
(* C3: the canonical key is order-insensitive and injective, both as the   *)
(* map is built and as the replay lookup computes it: two recorded calls   *)
(* get the same key exactly when they have the same target and options     *)
(* holding the same fields and values, in whatever order.                  *)
(***************************************************************************)
C3_KeyOrderInsensitiveInjective ==
    \A i, j \in 1..Len(http_requests) :
        (HasUrl(http_requests[i]) /\ HasUrl(http_requests[j])) =>
            LET a == http_requests[i]
                b == http_requests[j]
                same == a.url = b.url /\ SameOptions(a.options, b.options)
            IN /\ same <=> (PyKey(a) = PyKey(b))
               /\ same <=> (JsKey(ArgsOf(a)) = JsKey(ArgsOf(b)))

(***************************************************************************)
(* C4: code that makes no interception call and does not raise completes   *)
(* with the value of the trace-pass evaluation, is evaluated exactly once, *)
(* dispatches no transport call and creates no replay context, whatever    *)
(* kind of value it produces.                                              *)
(***************************************************************************)
C4_FastPathSingleEvaluation ==
    (pc = "Completed" /\ http_requests = <<>>) =>
        /\ Len(evals) = 1
        /\ SameValue(response.result, evals[1].value)
        /\ transport = <<>>
        /\ contexts = 1

(***************************************************************************)
(* C5: a request whose code is empty is rejected with InvalidRequest       *)
(* before any context is created and before any transport call; it is      *)
(* never reported as ExecutionError.                                       *)
(***************************************************************************)
C5_EmptyCodeRejected ==
    request.code = EmptyCode =>
        /\ pc \in {"Received", "Failed"}
        /\ contexts = 0 /\ ctx = Deleted /\ ctx2 = Deleted
        /\ evals = <<>>
        /\ transport = <<>>
        /\ pc = "Failed" =>
              /\ response.status_code = 400
              /\ response.detail = [text |-> "Invalid code parameter"]

C5_Witness ==
    /\ request.code = EmptyCode
    /\ pc = "Failed"
    /\ response.status_code = 400

(***************************************************************************)
(* C6: the resolution phase always succeeds: for every non-empty trace     *)
(* log and every combination of transport outcomes the request goes on to  *)
(* the replay pass, and a transport failure becomes an envelope with ok    *)
(* false, status 0, statusText "Error", no headers and an error message.   *)
(***************************************************************************)
C6_ResolutionAlwaysReachesReplay ==
    /\ (Terminal /\ http_requests # <<>>) => PassEvals("replay") # <<>>
    /\ \A i \in 1..Len(tasks) :
          (tasks[i].done /\ tasks[i].envelope.status = 0) =>
              /\ tasks[i].envelope.ok = FALSE
              /\ tasks[i].envelope.statusText = "Error"
              /\ tasks[i].envelope.headers = {}
              /\ "error" \in DOMAIN tasks[i].envelope

(***************************************************************************)
(* C7: when the trace-pass evaluation raises and the trace log is empty    *)
(* the request fails with ExecutionError carrying the message of the       *)
(* exception, and neither the resolution phase nor the replay pass runs.   *)
(***************************************************************************)
C7_TraceErrorWithoutCalls ==
    \A k \in 1..Len(evals) :
        (evals[k].pass = "trace" /\ evals[k].raised /\ http_requests = <<>>) =>
            /\ FailedWith(evals[k].msg)
            /\ tasks = <<>> /\ transport = <<>>
            /\ contexts = 1 /\ ctx2 = Deleted
            /\ PassEvals("replay") = <<>>

C7_Witness ==
    /\ pc = "Failed"
    /\ evals # <<>>
    /\ evals[1].pass = "trace" /\ evals[1].raised
    /\ http_requests = <<>>
    /\ response.status_code = 500

(***************************************************************************)
(* C8: when the trace log is not empty at the end of the trace-pass        *)
(* evaluation the request resolves the calls and runs the replay pass,     *)
(* whether that evaluation returned or raised, and the final result is     *)
(* the value of the replay evaluation.                                     *)
(***************************************************************************)
C8_NonEmptyLogIsReplayed ==
    (Terminal /\ http_requests # <<>>) =>
        /\ Len(tasks) = Len(http_requests)
        /\ \A i \in 1..Len(tasks) : tasks[i].done
        /\ PassEvals("replay") # <<>>
        /\ pc = "Completed" =>
              LET replays == PassEvals("replay")
              IN SameValue(response.result, replays[Len(replays)].value)

(***************************************************************************)
(* C9: a raise of the replay-pass evaluation ends the request in Failed    *)
(* with ExecutionError, and a replay evaluation that returns ends it in    *)
(* Completed with the value it returned; there is no other outcome.        *)
(***************************************************************************)
C9_ReplayOutcome ==
    (Terminal /\ PassEvals("replay") # <<>>) =>
        LET replay == PassEvals("replay")[1]
        IN IF replay.raised
           THEN FailedWith(replay.msg)
           ELSE /\ pc = "Completed"
                /\ response.status_code = 200
                /\ SameValue(response.result, replay.value)

(***************************************************************************)
(* C10: the value a Completed request returns is a host-representable      *)
(* structured value for every kind of evaluation result, in the fast path  *)
(* and in the replay pass: no handle into a context is returned.           *)
(***************************************************************************)
C10_NoHandleReturned ==
    pc = "Completed" => HostRepresentable(response.result)

(***************************************************************************)
(* C12: every error outcome of execute_code, the rejection of the request  *)
(* as well as the execution error, carries a payload with both the field   *)
(* `error` and the field `message`.                                        *)
(***************************************************************************)
C12_ErrorPayloadDiscriminated ==
    pc = "Failed" => {"error", "message"} \subseteq DOMAIN response.detail

(***************************************************************************)
(* C13: a call of the replay pass whose key has no entry in the map, so    *)
(* every call that was never traced, returns undefined from the lookup     *)
(* without throwing, and the evaluation goes on after the call: if it      *)
(* raises, it raises at a later statement.                                 *)
(***************************************************************************)
C13_UntracedCallReturnsUndefined ==
    \A k \in 1..Len(evals) :
        evals[k].pass = "replay" =>
            \A c \in 1..Len(evals[k].calls) :
                LET call == evals[k].calls[c]
                IN JsKey(call.args) \notin DOMAIN http_results =>
                      /\ call.ret = Undefined
                      /\ evals[k].raised => evals[k].raisedAt > call.at

\* a replay evaluation made a call no entry of the log records, and returned
C13_Witness ==
    \E k \in 1..Len(evals) :
        /\ evals[k].pass = "replay"
        /\ ~evals[k].raised
        /\ \E c \in 1..Len(evals[k].calls) :
              /\ \A i \in 1..Len(http_requests) :
                    ~TracedAs(evals[k].calls[c].args, i)
              /\ JsKey(evals[k].calls[c].args) \notin DOMAIN http_results
              /\ evals[k].calls[c].ret = Undefined

\* the replay pass has been entered
ReplayStarted == pc = "ReplayPass" \/ PassEvals("replay") # <<>>

\* every dispatched call has produced its envelope
AllDone == \A i \in 1..Len(tasks) : tasks[i].done

\* the canonical key of the request of every task
TaskKeys == [j \in 1..Len(tasks) |-> PyKey(tasks[j].req)]

\* the last task that has the key of task i, keys being TaskKeys
LastWithKey(keys, i) ==
    CHOOSE j \in i..Len(keys) :
        /\ keys[j] = keys[i]
        /\ \A l \in (j + 1)..Len(keys) : keys[l] # keys[i]

(***************************************************************************)
(* C14: the resolution phase is a join.  While a dispatched call is        *)
(* pending the request stays in ResolvingIO, whatever the calls that are   *)
(* done returned; once the replay pass is entered there is one task per    *)
(* entry of the log, every task is done, and the map holds for the key of  *)
(* every task the envelope of the (last) task with that key, failed or     *)
(* not: no failure removes or replaces the outcome of another call.        *)
(***************************************************************************)
C14_ResolutionIsJoin ==
    /\ ~AllDone => pc = "ResolvingIO"
    /\ ReplayStarted =>
          /\ Len(tasks) = Len(http_requests)
          /\ AllDone
          /\ \A keys \in {TaskKeys} :
                /\ DOMAIN http_results = {keys[i] : i \in 1..Len(tasks)}
                /\ \A i \in 1..Len(tasks) :
                      http_results[keys[i]] = tasks[LastWithKey(keys, i)].envelope

\* the replay pass was entered after one call failed and another, with a
\* different key, was answered; both envelopes are in the map
C14_Witness ==
    /\ ReplayStarted
    /\ \E i, j \in 1..Len(tasks) :
          /\ PyKey(tasks[i].req) # PyKey(tasks[j].req)
          /\ "error" \in DOMAIN tasks[i].envelope
          /\ tasks[j].envelope.ok
          /\ http_results[PyKey(tasks[i].req)] = tasks[i].envelope
          /\ http_results[PyKey(tasks[j].req)] = tasks[j].envelope

\* entry i of the log is the record of this call
LoggedAs(call, i) ==
    /\ http_requests[i].options = JsOptions(call.args)
    /\ IF JsUrl(call.args) = <<>> THEN ~HasUrl(http_requests[i])
       ELSE HasUrl(http_requests[i]) /\ <<http_requests[i].url>> = JsUrl(call.args)

(***************************************************************************)
(* C15: the phases of one request are sequential.  No transport call and   *)
(* no task exists while the request is in Received or TracePass, nor after *)
(* the trace pass until the log has been read and dispatched; transport    *)
(* calls exist only together with their tasks.  Every call of a trace      *)
(* evaluation returns undefined and does not throw, and the log that is    *)
(* read has exactly one entry per call of the trace evaluation, in order.  *)
(***************************************************************************)
C15_PhasesSequential ==
    /\ pc \in {"Received", "TracePass", "Immediate", "AwaitingResolution"} =>
          transport = <<>> /\ tasks = <<>>
    /\ Len(transport) = Len(tasks)
    /\ tasks # <<>> =>
          /\ PassEvals("trace") # <<>>
          /\ ~ctx.alive
          /\ Len(tasks) = Len(http_requests)
    /\ \A k \in 1..Len(evals) :
          evals[k].pass = "trace" =>
             \A c \in 1..Len(evals[k].calls) :
                /\ evals[k].calls[c].ret = Undefined
                /\ evals[k].raised => evals[k].raisedAt > evals[k].calls[c].at
    /\ (PassEvals("trace") # <<>> /\ ~PassEvals("trace")[1].raised) =>
          LET calls == PassEvals("trace")[1].calls
          IN /\ Len(http_requests) = Len(calls)
             /\ \A i \in 1..Len(calls) : LoggedAs(calls[i], i)

\* a trace evaluation made two calls, the log has two entries and the request
\* went on to dispatch them
C15_Witness ==
    /\ pc = "ResolvingIO"
    /\ Len(PassEvals("trace")[1].calls) = 2
    /\ Len(http_requests) = 2
    /\ Len(transport) = 2

(***************************************************************************)
(* C16: a context is deleted when the pass that created it ends, whether   *)
(* the pass returned or raised.  The trace context is alive in TracePass   *)
(* only and the replay context in ReplayPass only, so at most one context  *)
(* is alive at any point, the trace context is gone when the first         *)
(* transport call is made, and none is alive in Completed or Failed.       *)
(***************************************************************************)
C16_ContextsTornDown ==
    /\ ctx.alive => pc = "TracePass"
    /\ ctx2.alive => pc = "ReplayPass"
    /\ ~(ctx.alive /\ ctx2.alive)
    /\ transport # <<>> => ~ctx.alive
    /\ Terminal => ~ctx.alive /\ ~ctx2.alive

\* both passes created a context, the replay pass raised, and no context is
\* left
C16_Witness ==
    /\ pc = "Failed"
    /\ contexts = 2
    /\ PassEvals("replay") # <<>>
    /\ PassEvals("replay")[1].raised
    /\ ~ctx.alive
    /\ ~ctx2.alive

\* any two calls of the replay pass with the same key return the same value
DuplicatesObserveSameValue ==
    \A k, l \in 1..Len(evals) :
        (evals[k].pass = "replay" /\ evals[l].pass = "replay") =>
            \A c \in 1..Len(evals[k].calls), d \in 1..Len(evals[l].calls) :
                JsKey(evals[k].calls[c].args) = JsKey(evals[l].calls[d].args) =>
                    evals[k].calls[c].ret = evals[l].calls[d].ret

\* the envelopes the transport produced for the requests made for this call
EnvelopesFor(args) ==
    {tasks[i].envelope : i \in {j \in 1..Len(tasks) : TracedAs(args, j)}}

(***************************************************************************)
(* C17: when the code makes the same call, same target and same options,   *)
(* more than once, every occurrence of the call in the replay pass returns *)
(* an envelope the transport produced for that call, and all occurrences   *)
(* return the same one.                                                    *)
(***************************************************************************)
C17_DuplicatesObserveSameEnvelope ==
    \A k \in 1..Len(evals) :
        evals[k].pass = "replay" =>
            \A c, d \in 1..Len(evals[k].calls) :
                (c # d /\ evals[k].calls[c].args = evals[k].calls[d].args) =>
                    /\ evals[k].calls[c].ret = evals[k].calls[d].ret
                    /\ evals[k].calls[c].ret.kind = "object"
                    /\ evals[k].calls[c].ret.fields
                          \in EnvelopesFor(evals[k].calls[c].args)

\* the place of a state in the order of the orchestrator
Order(state) ==
    CASE state = "Received" -> 0
      [] state = "TracePass" -> 1
      [] state \in {"Immediate", "AwaitingResolution"} -> 2
      [] state = "ResolvingIO" -> 3
      [] state = "ReplayPass" -> 4
      [] state \in {"Completed", "Failed"} -> 5

\* the states a state is entered from
EnteredFrom(state) ==
    CASE state = "TracePass" -> {"Received"}
      [] state \in {"Immediate", "AwaitingResolution"} -> {"TracePass"}
      [] state = "ResolvingIO" -> {"AwaitingResolution"}
      [] state = "ReplayPass" -> {"ResolvingIO"}
      [] state = "Completed" -> {"Immediate", "ReplayPass"}
      [] state = "Failed" -> {"Received", "TracePass", "AwaitingResolution",
                              "ReplayPass"}
      [] state = "Received" -> {}

(***************************************************************************)
(* C18: every step of a request moves it forward in the order Received,    *)
(* TracePass, Immediate or AwaitingResolution, ResolvingIO, ReplayPass,    *)
(* Completed or Failed.  A state is entered only from the state before it  *)
(* (Failed from any state where an error can be raised), so TracePass and  *)
(* ReplayPass are entered at most once and at most two contexts are        *)
(* created; a replay evaluation exists only after a trace evaluation that  *)
(* left a non-empty log; no step leaves Completed or Failed; the response  *)
(* is produced by the step that enters Completed or Failed and by no       *)
(* other step.                                                             *)
(***************************************************************************)
C18_StateOrder ==
    [][/\ ~Terminal
       /\ pc' # pc => /\ Order(pc') > Order(pc)
                      /\ pc \in EnteredFrom(pc')
       /\ contexts' <= 2
       /\ contexts' = contexts + 1 <=> pc' \in {"TracePass", "ReplayPass"}
       /\ PassEvals("replay")' # <<>> =>
             /\ PassEvals("trace")' # <<>>
             /\ http_requests' # <<>>
       /\ pc' = "ReplayPass" => http_requests' # <<>>
       /\ response' # response <=> Terminal'
       /\ response = NoResponse]_vars

\* a request went through both passes and completed
C18_Witness ==
    /\ pc = "Completed"
    /\ contexts = 2
    /\ PassEvals("trace") # <<>>
    /\ PassEvals("replay") # <<>>
    /\ response.status_code = 200

(***************************************************************************)
(* Vocabulary of the properties of several requests                        *)
(***************************************************************************)
\* the requests being served, and the locals of request i
Served == {current} \cup DOMAIN others

LocalsOf(i) == IF i = current THEN Running ELSE others[i]

Ended(i) == LocalsOf(i).pc \in {"Completed", "Failed"}

\* the transport gave the calls of requests i and j one answer per client
\* request
SameAnswers(i, j) ==
    LET ti == LocalsOf(i).tasks
        tj == LocalsOf(j).tasks
    IN \A a \in 1..Len(ti), b \in 1..Len(tj) :
          (ti[a].done /\ tj[b].done
             /\ ClientRequest(ti[a].req) = ClientRequest(tj[b].req)) =>
                ti[a].envelope = tj[b].envelope

\* requests i and j ran on one build of py_mini_racer: handles they got
\* back have the same class
SameBuild(i, j) ==
    LET ri == LocalsOf(i).result
        rj == LocalsOf(j).result
    IN (ri.kind = "handle" /\ rj.kind = "handle") => ri.class = rj.class

\* requests i and j are the same request served under the same conditions
Repeated(i, j) ==
    /\ i # j
    /\ LocalsOf(i).request = LocalsOf(j).request
    /\ Ended(i) /\ Ended(j)
    /\ SameAnswers(i, i) /\ SameAnswers(j, j) /\ SameAnswers(i, j)
    /\ SameBuild(i, j)

(***************************************************************************)
(* C11: two requests with the same code and inputs, served one after the   *)
(* other or together, for which the transport answers equal client         *)
(* requests alike, end with the same response: the same status and the     *)
(* same result, or the same error.                                         *)
(***************************************************************************)
C11_Idempotent ==
    \A i, j \in Served :
        Repeated(i, j) => LocalsOf(i).response = LocalsOf(j).response

\* the same request was served twice, its code changed INPUTS and made a
\* call, and both times it completed
C11_Witness ==
    /\ Repeated(1, 2)
    /\ LocalsOf(1).tasks # <<>>
    /\ LocalsOf(2).tasks # <<>>
    /\ \E k \in 1..Len(LocalsOf(1).evals) : LocalsOf(1).evals[k].inputs.n > 0
    /\ LocalsOf(1).response.status_code = 200
    /\ LocalsOf(2).response.status_code = 200

\* a replay evaluation of request i made a call that has no entry in its map
ReplayMissed(i) ==
    LET l == LocalsOf(i)
    IN \E k \in 1..Len(l.evals) :
          /\ l.evals[k].pass = "replay"
          /\ \E c \in 1..Len(l.evals[k].calls) :
                JsKey(l.evals[k].calls[c].args) \notin DOMAIN l.http_results

\* request i was replayed and every call of its replay found its entry
ReplayFoundAll(i) ==
    LET l == LocalsOf(i)
    IN /\ \E k \in 1..Len(l.evals) : l.evals[k].pass = "replay"
       /\ ~ReplayMissed(i)

(***************************************************************************)
(* C19: a replay call without a resolved entry is detectable in the        *)
(* outcome: the response of a request whose replay pass made such a call   *)
(* differs from the response of every request whose replay pass found all  *)
(* its calls.                                                              *)
(***************************************************************************)
C19_ReplayMissDetectable ==
    \A i, j \in Served :
        (Ended(i) /\ Ended(j) /\ ReplayMissed(i) /\ ReplayFoundAll(j)) =>
            LocalsOf(i).response # LocalsOf(j).response

\* the log, the tasks and the map of request i come from its own trace
\* evaluation and from nothing else
Private(i) ==
    LET l == LocalsOf(i)
        traced == IF l.evals = <<>> THEN <<>> ELSE l.evals[1].calls
    IN /\ l.http_requests # <<>> =>
             /\ Len(l.http_requests) = Len(traced)
             /\ \A c \in 1..Len(traced) :
                   /\ l.http_requests[c].options = JsOptions(traced[c].args)
                   /\ HasUrl(l.http_requests[c]) =>
                         <<l.http_requests[c].url>> = JsUrl(traced[c].args)
       /\ l.tasks # <<>> =>
             /\ Len(l.tasks) = Len(l.http_requests)
             /\ \A c \in 1..Len(l.tasks) : l.tasks[c].req = l.http_requests[c]
       /\ DOMAIN l.http_results \subseteq
             {PyKey(l.http_requests[c]) : c \in 1..Len(l.http_requests)}
       /\ \A key \in DOMAIN l.http_results :
             \E c \in 1..Len(l.tasks) :
                /\ PyKey(l.tasks[c].req) = key
                /\ l.tasks[c].done
                /\ l.http_results[key] = l.tasks[c].envelope
       /\ l.contexts <= 2

(***************************************************************************)
(* C20: requests served together do not interfere.  In every interleaving  *)
(* the log, the tasks and the map of a request hold what its own trace     *)
(* evaluation recorded and what the transport answered to its own calls;   *)
(* a suspended request has no context alive; every call on the shared      *)
(* client belongs to one task of one request; and a request served         *)
(* together with another ends with the response the same request has when  *)
(* served alone with the same transport answers.                           *)
(***************************************************************************)
C20_RequestsDoNotInterfere ==
    /\ \A i \in Served : Private(i)
    /\ \A i \in DOMAIN others : ~others[i].ctx.alive /\ ~others[i].ctx2.alive
    /\ Served = Requests =>
          Len(transport) = Len(LocalsOf(1).tasks) + Len(LocalsOf(2).tasks)
                              + Len(LocalsOf(3).tasks)
    /\ \A j \in Served \ {1} :
          Repeated(1, j) => LocalsOf(j).response = LocalsOf(1).response

\* requests 2 and 3 were served together, made the same call on the client
\* and got different answers; request 2 ended as request 1, served alone
C20_Witness ==
    /\ overlapped
    /\ Repeated(1, 2)
    /\ Ended(3)
    /\ LocalsOf(2).tasks # <<>>
    /\ LocalsOf(3).tasks # <<>>
    /\ ClientRequest(LocalsOf(2).tasks[1].req) = ClientRequest(LocalsOf(3).tasks[1].req)
    /\ LocalsOf(2).tasks[1].envelope # LocalsOf(3).tasks[1].envelope
    /\ LocalsOf(2).response = LocalsOf(1).response
    /\ LocalsOf(2).response # LocalsOf(3).response

(***************************************************************************)
(* C21: every request that passed validation eventually reaches Completed  *)
(* or Failed, whatever its code does: an evaluation that does not end by   *)
(* itself is ended by a time or step bound.                                *)
(***************************************************************************)
C21_AcceptedRequestEnds ==
    (pc = "TracePass") ~> Terminal

(***************************************************************************)
(* C22: in the envelope of every call, ok is true exactly when the         *)
(* transport answered with a status from 200 to 299, and status is 0       *)
(* exactly when the transport raised.  An answer with another status       *)
(* gives an envelope with ok false, the status of the answer and no error  *)
(* field.  No outcome of a call fails the request: once calls were         *)
(* dispatched the request ends only by its replay evaluation.              *)
(***************************************************************************)
C22_NonSuccessIsAnOutcome ==
    /\ \A i \in 1..Len(tasks) :
          tasks[i].done =>
             LET o == tasks[i].outcome
                 e == tasks[i].envelope
             IN /\ e.ok <=> (~o.raised /\ o.status_code \in 200..299)
                /\ e.status = 0 <=> o.raised
                /\ "error" \in DOMAIN e <=> o.raised
                /\ ~o.raised => /\ e.status = o.status_code
                                /\ e.statusText = o.reason_phrase
    /\ (tasks # <<>> /\ Terminal) => PassEvals("replay") # <<>>

\* the transport answered 404, the envelope says so, and the request was
\* replayed and completed with that envelope as its result
C22_Witness ==
    /\ pc = "Completed"
    /\ Len(tasks) = 1
    /\ tasks[1].outcome.status_code = 404
    /\ ~tasks[1].envelope.ok
    /\ tasks[1].envelope.status = 404
    /\ "error" \notin DOMAIN tasks[1].envelope
    /\ PassEvals("replay") # <<>>
    /\ response.result.kind = "dict"
    /\ response.result.fields = tasks[1].envelope

\* a context as create_context_with_http_support hands it to a pass
FreshContext(pass) ==
    create_context_with_http_support(
        request.inputs, IF pass = "trace" THEN <<>> ELSE <<http_results>>)

(***************************************************************************)
(* C23: every evaluation of the code starts from a context that holds the  *)
(* bound inputs and httpRequest only, so it leaves INPUTS as an evaluation *)
(* in a context just created leaves them, and the value a Completed        *)
(* request returns is the value of one evaluation in such a context,       *)
(* however many times the host evaluated the code.                         *)
(***************************************************************************)
C23_EveryEvaluationStartsFresh ==
    /\ \A k \in 1..Len(evals) :
          evals[k].inputs =
              Evaluate(FreshContext(evals[k].pass), request.code).ctx.INPUTS
    /\ pc = "Completed" =>
          SameValue(response.result,
                    Evaluate(FreshContext(evals[Len(evals)].pass),
                             request.code).value)

\* the tasks whose request has this canonical key, keys being TaskKeys
TasksWithKey(keys, key) == {j \in 1..Len(keys) : keys[j] = key}

(***************************************************************************)
(* C24: whatever order the transport calls complete in, every key of the   *)
(* resolution map is the canonical key of a dispatched call and the        *)
(* envelope stored under it was produced by a transport call made for a    *)
(* request with that key: the envelope of an answered call carries the     *)
(* client request of such a task.  Every dispatched call has its key in    *)
(* the map.                                                                *)
(***************************************************************************)
C24_EnvelopeUnderOwnKey ==
    ReplayStarted =>
        \A keys \in {TaskKeys} :
           /\ \A j \in 1..Len(tasks) : keys[j] \in DOMAIN http_results
           /\ \A key \in DOMAIN http_results :
                 /\ \E j \in TasksWithKey(keys, key) :
                       /\ tasks[j].done
                       /\ http_results[key] =
                             Envelope(ClientRequest(tasks[j].req), tasks[j].outcome)
                 /\ "data" \in DOMAIN http_results[key] =>
                       http_results[key].data \in
                           {ClientRequest(tasks[j].req) :
                               j \in TasksWithKey(keys, key)}

\* two calls with different keys were answered and each key holds the
\* envelope of its own call
C24_Witness ==
    /\ ReplayStarted
    /\ Len(tasks) = 2
    /\ PyKey(tasks[1].req) # PyKey(tasks[2].req)
    /\ ~tasks[1].outcome.raised
    /\ ~tasks[2].outcome.raised
    /\ tasks[1].outcome # tasks[2].outcome
    /\ http_results[PyKey(tasks[1].req)].data = ClientRequest(tasks[1].req)
    /\ http_results[PyKey(tasks[2].req)].data = ClientRequest(tasks[2].req)
    /\ http_results[PyKey(tasks[1].req)].status = tasks[1].outcome.status_code
    /\ http_results[PyKey(tasks[2].req)].status = tasks[2].outcome.status_code

====
